---- MODULE Spec2Model ----
(***************************************************************************)
(* Model of afterparty-ng: the Hub (hook registry), the Worker (per-request *)
(* dispatch service, src/src/lib.rs) and the AuthenticateHook decorator     *)
(* (src/src/hook.rs).                                                       *)
(*                                                                          *)
(* Conventions                                                              *)
(*   Option<T>      None is <<>>, Some(x) is <<x>>                          *)
(*   &str that is sliced or decoded (the signature) is a sequence of        *)
(*   one-character strings; other strings are atomic TLA+ strings.          *)
(*   A header value is [text |-> BOOLEAN, val |-> ...]; to_str() succeeds   *)
(*   exactly when text is TRUE.                                             *)
(***************************************************************************)
EXTENDS Integers, Sequences, FiniteSets, TLC

VARIABLES
    hooks,        \* Hub.hooks : HashMap<String, Vec<Box<Hook>>>
    regLog,       \* history: every registration made, in call order
    phase,        \* "setup" (Hub is &mut) or "serving" (a Worker borrows Hub.hooks)
    pc,           \* position of Worker::call: idle, body, dispatch, done, aborted
    hdrs,         \* event and delivery headers of the request being handled
    signature,    \* local `signature` of Worker::call : Option<&str>
    resolved,     \* local `hooks` of Worker::call (the Some(..) of Worker::hooks)
    body,         \* history: the body handed over by concat2().wait(), if it was awaited
    parsed,       \* history: Delivery::new was called for this request
    delivery,     \* local `delivery` : Option<Delivery>
    idx,          \* position of the `for hook in hooks` loop (1-based)
    hookState,    \* none / user (a user callback is running) / ret / panic
    calls,        \* history: invocations of user callbacks, in order
    resp,         \* Option<Response>
    wk            \* the locals of the Worker::call of each concurrently served request

vars == <<hooks, regLog, phase, pc, hdrs, signature, resolved, body, parsed,
          delivery, idx, hookState, calls, resp, wk>>

----------------------------------------------------------------------------
(* Bounds and input alphabets *)

MaxRegs == 3
DigestLen == 1

None == <<>>
Some(x) == <<x>>

Wildcard == "*"
RegKinds == {"push", Wildcard}
Callbacks == {"h1", "h2"}
AuthCallbacks == {"g1"}
HubSecrets == {"s1"}
AuthSecrets == {"s1", "s2"}

PushJson == "{\"ref\":\"refs/heads/main\"}"
MalformedJson == "{\"ref\":"
LossyText == "{\"ref\":\"\\ufffd\"}"
Payloads == {PushJson, MalformedJson}


----------------------------------------------------------------------------
(* Strings as byte strings: the signature is indexed by BYTE in the code *)

PrefixLen == 5

\* UTF-8 length of one character of the alphabet; TwoByteChar stands for a
\* character such as e-acute, encoded on two bytes
TwoByteChar == "U+00E9"
ByteLen(c) == IF c = TwoByteChar THEN 2 ELSE 1

RECURSIVE SumBytes(_, _)
\* number of bytes taken by the first n characters of str
SumBytes(str, n) == IF n = 0 THEN 0 ELSE SumBytes(str, n - 1) + ByteLen(str[n])

\* a slice that starts one byte early and keeps the "="
SansPrefixKeepsEquals(sig) ==
    LET cut == {n \in 0..Len(sig) : SumBytes(sig, n) = PrefixLen - 1}
    IN  IF cut = {}
        THEN [ok |-> FALSE, val |-> <<>>]
        ELSE [ok |-> TRUE, val |-> SubSeq(sig, (CHOOSE n \in cut : TRUE) + 1, Len(sig))]

\* signature[5..signature.len()]: panics unless byte 5 exists and is a character boundary
SansPrefix(sig) ==
    LET cut == {n \in 0..Len(sig) : SumBytes(sig, n) = PrefixLen}
    IN  IF cut = {}
        THEN [ok |-> FALSE, val |-> <<>>]
        ELSE [ok |-> TRUE, val |-> SubSeq(sig, (CHOOSE n \in cut : TRUE) + 1, Len(sig))]

HexDigits == <<"0", "1", "2", "3", "4", "5", "6", "7", "8", "9",
               "a", "b", "c", "d", "e", "f">>
UpperHex == <<"A", "B", "C", "D", "E", "F">>

\* value of one hex character, -1 when it is not a hex digit (hex crate: both cases accepted)
HexVal(c) ==
    IF \E i \in 1..16 : HexDigits[i] = c
    THEN (CHOOSE i \in 1..16 : HexDigits[i] = c) - 1
    ELSE IF \E i \in 1..6 : UpperHex[i] = c
         THEN (CHOOSE i \in 1..6 : UpperHex[i] = c) + 9
         ELSE -1

\* Vec::from_hex: Err on odd byte length or on any non-hex byte
FromHex(str) ==
    LET n == Len(str)
    IN  IF SumBytes(str, n) % 2 # 0 \/ \E i \in 1..n : HexVal(str[i]) = -1
        THEN [ok |-> FALSE, val |-> <<>>]
        ELSE [ok |-> TRUE,
              val |-> [i \in 1..(n \div 2) |->
                          16 * HexVal(str[2 * i - 1]) + HexVal(str[2 * i])]]

\* write_hex: two lower-case digits per byte
ToHex(bytes) ==
    [i \in 1..(2 * Len(bytes)) |->
        IF i % 2 = 1 THEN HexDigits[(bytes[(i + 1) \div 2] \div 16) + 1]
                     ELSE HexDigits[(bytes[i \div 2] % 16) + 1]]

\* as_bytes() of the secrets and payload texts of the model, as a number that identifies them
KeyCode(secret) == IF secret = "s1" THEN 1 ELSE IF secret = "s2" THEN 2 ELSE 0
MsgCode(payload) ==
    IF payload = PushJson THEN 1 ELSE IF payload = MalformedJson THEN 2
    ELSE IF payload = LossyText THEN 3 ELSE 0

\* hmac::sign under SigningKey::new(&digest::SHA1, secret): a keyed digest of
\* DigestLen bytes, different for every (secret, payload) of the model
HmacSha1(secret, payload) ==
    [i \in 1..DigestLen |-> (37 * KeyCode(secret) + 101 * MsgCode(payload) + 59 * i) % 256]

\* hmac::verify_with_own_key(..).is_ok(): the tag recomputed equals the bytes given
VerifyWithOwnKey(secret, payload, sigbytes) == sigbytes = HmacSha1(secret, payload)

\* AuthenticateHook::authenticate: "true", "false", or "panic" (the slice is out of range)
Authenticate(secret, payload, sig) ==
    LET sans_prefix == SansPrefix(sig)
    IN  IF ~sans_prefix.ok THEN "panic"
        ELSE LET sigbytes == FromHex(sans_prefix.val)
             IN  IF sigbytes.ok
                 THEN IF VerifyWithOwnKey(secret, payload, sigbytes.val) THEN "true" ELSE "false"
                 ELSE "false"

\* the sender's signature (as built in tests::authenticate_signatures)
Sign(secret, payload) == <<"s", "h", "a", "1", "=">> \o ToHex(HmacSha1(secret, payload))

----------------------------------------------------------------------------
(* Hooks.  A hook value is [auth, secret, cb]; cb names the user callback. *)

CallbackHook(cb) == [auth |-> FALSE, secret |-> "", cb |-> cb]
\* AuthenticateHook::new
AuthenticateHookNew(secret, cb) == [auth |-> TRUE, secret |-> secret, cb |-> cb]

\* What one Hook::handle does before user code runs: inv = the callback
\* invocations it makes, st = "user" (a callback now runs and may return or
\* panic), "ret" (handle returns without running user code), "panic".
CallbackHandle(hook, d) == [inv |-> <<[cb |-> hook.cb, d |-> d]>>, st |-> "user"]

\* a handle that lets a delivery without signature through
AuthenticateHookHandleUnsignedPasses(hook, d) ==
    IF d.signature = None
    THEN [inv |-> <<[cb |-> hook.cb, d |-> d]>>, st |-> "user"]
    ELSE LET a == Authenticate(hook.secret, d.unparsed_payload, d.signature[1])
         IN  IF a = "true" THEN [inv |-> <<[cb |-> hook.cb, d |-> d]>>, st |-> "user"]
             ELSE IF a = "false" THEN [inv |-> <<>>, st |-> "ret"]
             ELSE [inv |-> <<>>, st |-> "panic"]

\* a handle that authenticates the tag of the decoded payload instead of the raw text
AuthenticateHookHandleOverDecoded(hook, d) ==
    IF d.signature = None
    THEN [inv |-> <<>>, st |-> "ret"]
    ELSE LET a == Authenticate(hook.secret, d.payload.variant, d.signature[1])
         IN  IF a = "true" THEN [inv |-> <<[cb |-> hook.cb, d |-> d]>>, st |-> "user"]
             ELSE IF a = "false" THEN [inv |-> <<>>, st |-> "ret"]
             ELSE [inv |-> <<>>, st |-> "panic"]

AuthenticateHookHandle(hook, d) ==
    IF d.signature = None
    THEN [inv |-> <<>>, st |-> "ret"]
    ELSE LET a == Authenticate(hook.secret, d.unparsed_payload, d.signature[1])
         IN  IF a = "true" THEN [inv |-> <<[cb |-> hook.cb, d |-> d]>>, st |-> "user"]
             ELSE IF a = "false" THEN [inv |-> <<>>, st |-> "ret"]
             ELSE [inv |-> <<>>, st |-> "panic"]

HookHandle(hook, d) ==
    IF hook.auth THEN AuthenticateHookHandle(hook, d) ELSE CallbackHandle(hook, d)

----------------------------------------------------------------------------
(* Event payload model (mod events): decoding of the patched JSON text *)

KnownKinds == {"push"}
WellFormedJson == {PushJson, LossyText}

\* case::CaseExt::to_camel of the event name, the tag of the Event variant
Camelize(event) == IF event = "push" THEN "Push" ELSE IF event = "foo" THEN "Foo" ELSE event

\* events::patch_payload_json: the payload text with the variant tag added
PatchPayloadJson(event, payload) == [tag |-> Camelize(event), json |-> payload]

\* serde_json::from_str::<Event>: Some(event) or None (an Err)
FromStrEvent(event, patched) ==
    IF event \in KnownKinds
    THEN IF patched.json \in WellFormedJson
         THEN Some([variant |-> patched.tag, data |-> patched.json])
         ELSE None
    ELSE Some([variant |-> "Opaque", data |-> patched.json])

\* a constructor that hands out a Delivery with a null payload when decoding fails
DeliveryNewNullPayload(id, event, payload, sig) ==
    LET patched == PatchPayloadJson(event, payload)
        r == FromStrEvent(event, patched)
    IN  Some([id |-> id, event |-> event,
              payload |-> IF r # None THEN r[1] ELSE [variant |-> "Null", data |-> ""],
              unparsed_payload |-> payload, signature |-> sig])

\* Delivery::new
DeliveryNew(id, event, payload, sig) ==
    LET patched == PatchPayloadJson(event, payload)
        r == FromStrEvent(event, patched)
    IN  IF r # None
        THEN Some([id |-> id, event |-> event, payload |-> r[1],
                   unparsed_payload |-> payload, signature |-> sig])
        ELSE None

----------------------------------------------------------------------------
(* Hub *)

\* HashMap::get
Get(map, key) == IF key \in DOMAIN map THEN Some(map[key]) ELSE None

\* a registration that inserts the empty Vec for a new key and forgets the push
HubHandleInsertOnly(map, event, hook) ==
    IF event \in DOMAIN map
    THEN [map EXCEPT ![event] = Append(@, hook)]
    ELSE map @@ (event :> <<>>)

\* Hub::handle: entry(event).or_insert(vec![]).push(hook)
HubHandle(map, event, hook) ==
    IF event \in DOMAIN map
    THEN [map EXCEPT ![event] = Append(@, hook)]
    ELSE map @@ (event :> <<hook>>)

RECURSIVE SumLens(_, _)
SumLens(map, keys) ==
    IF keys = {} THEN 0
    ELSE LET k == CHOOSE x \in keys : TRUE
         IN  Len(map[k]) + SumLens(map, keys \ {k})

\* a len that counts hooks instead of keys
HubLenCountsHooks(map) == SumLens(map, DOMAIN map)

\* Hub::len
HubLen(map) == Cardinality(DOMAIN map)

\* a resolution that puts the wildcard hooks first
WorkerHooksWildcardFirst(map, event) ==
    LET explicit == Get(map, event)
        implicit == Get(map, Wildcard)
    IN  IF explicit # None /\ implicit # None THEN Some(implicit[1] \o explicit[1])
        ELSE IF explicit # None THEN Some(explicit[1])
        ELSE IF implicit # None THEN Some(implicit[1])
        ELSE None

\* a resolution that forgets the wildcard-only arm
WorkerHooksNoWildcardOnly(map, event) ==
    LET explicit == Get(map, event)
        implicit == Get(map, Wildcard)
    IN  IF explicit # None /\ implicit # None THEN Some(explicit[1] \o implicit[1])
        ELSE IF explicit # None THEN Some(explicit[1])
        ELSE None

\* a resolution that answers an empty list where nothing is registered
WorkerHooksEmptyList(map, event) ==
    LET explicit == Get(map, event)
        implicit == Get(map, Wildcard)
    IN  IF explicit # None /\ implicit # None THEN Some(explicit[1] \o implicit[1])
        ELSE IF explicit # None THEN Some(explicit[1])
        ELSE IF implicit # None THEN Some(implicit[1])
        ELSE Some(<<>>)

\* Worker::hooks
WorkerHooks(map, event) ==
    LET explicit == Get(map, event)
        implicit == Get(map, Wildcard)
    IN  IF explicit # None /\ implicit # None THEN Some(explicit[1] \o implicit[1])
        ELSE IF explicit # None THEN Some(explicit[1])
        ELSE IF implicit # None THEN Some(implicit[1])
        ELSE None

----------------------------------------------------------------------------
(* Responses of Worker::call *)

BAD_REQUEST == 400
ACCEPTED == 202
INTERNAL_SERVER_ERROR == 500

\* a builder that is never given the status and keeps its default, 200
ResponseDefaultStatus(scode, resbody) == [status |-> 200, body |-> resbody]

Response(scode, resbody) == [status |-> scode, body |-> resbody]

\* a header check that never calls to_str()
HeaderCheckNoToStr(ev, del) ==
    IF ev # None /\ del # None THEN "ok" ELSE "invalid_request"

\* the header check at the top of Worker::call
HeaderCheck(ev, del) ==
    IF ev # None /\ del # None
    THEN IF ev[1].text /\ del[1].text THEN "ok" ELSE "invalid_headers"
    ELSE "invalid_request"

\* the optional signature: header.to_str().ok()
SignatureOf(sigHdr) == IF sigHdr # None /\ sigHdr[1].text THEN Some(sigHdr[1].val) ELSE None

----------------------------------------------------------------------------
(* Requests the server can receive *)

Text(v) == Some([text |-> TRUE, val |-> v])
NonText == Some([text |-> FALSE, val |-> "\\xff"])
NonTextSig == Some([text |-> FALSE, val |-> <<"\\xff">>])

\* kinds a request can name: a known one, one the payload model does not
\* know, and the wildcard key itself
RequestKinds == {"push", "foo", Wildcard}
EventHeaders == {None, NonText} \cup {Text(k) : k \in RequestKinds}
DeliveryHeaders == {None, NonText, Text("d1")}
HubSignatures == {Sign("s1", PushJson), Sign("s2", PushJson), <<"s", "h", "a">>}
SignatureHeaders == {None, NonTextSig} \cup {Text(sg) : sg \in HubSignatures}

\* a body: whether concat2().wait() yields it, whether its bytes are valid
\* UTF-8, and its text (for invalid UTF-8, the text a lossy decoding gives)
Bodies ==
    {[readOk |-> TRUE, utf8 |-> TRUE, text |-> t] : t \in Payloads}
    \cup {[readOk |-> TRUE, utf8 |-> FALSE, text |-> LossyText],
          [readOk |-> FALSE, utf8 |-> TRUE, text |-> ""]}

NoHeaders == [event |-> None, delivery |-> None]

\* the requests served at the same time, each by its own call of Worker::call
Workers == {"w1", "w2"}

\* the locals of a Worker::call that has not started
IdleWorker ==
    [pc |-> "idle", hdrs |-> NoHeaders, signature |-> None, resolved |-> <<>>,
     body |-> None, delivery |-> None, idx |-> 0, hookState |-> "none",
     calls |-> <<>>, resp |-> None]

----------------------------------------------------------------------------
(* Initial state: Hub::new(), nothing served yet *)

Init ==
    /\ hooks = <<>>
    /\ regLog = <<>>
    /\ phase = "setup"
    /\ pc = "idle"
    /\ hdrs = NoHeaders
    /\ signature = None
    /\ resolved = <<>>
    /\ body = None
    /\ parsed = FALSE
    /\ delivery = None
    /\ idx = 0
    /\ hookState = "none"
    /\ calls = <<>>
    /\ resp = None
    /\ wk = [w \in Workers |-> IdleWorker]

reqVars == <<pc, hdrs, signature, resolved, body, parsed, delivery, idx, hookState, calls, resp>>

\* hub.handle(event, callback)
Handle(k, cb) ==
    /\ phase = "setup"
    /\ Len(regLog) < MaxRegs
    /\ hooks' = HubHandle(hooks, k, CallbackHook(cb))
    /\ regLog' = Append(regLog, [event |-> k, hook |-> CallbackHook(cb)])
    /\ UNCHANGED <<wk, phase, reqVars>>

\* hub.handle_authenticated(event, secret, callback)
HandleAuthenticated(k, secret, cb) ==
    /\ phase = "setup"
    /\ Len(regLog) < MaxRegs
    /\ hooks' = HubHandle(hooks, k, AuthenticateHookNew(secret, cb))
    /\ regLog' = Append(regLog, [event |-> k, hook |-> AuthenticateHookNew(secret, cb)])
    /\ UNCHANGED <<wk, phase, reqVars>>

\* Hub::new_service: a Worker now borrows the map, which freezes it
NewService ==
    /\ phase = "setup"
    /\ phase' = "serving"
    /\ UNCHANGED <<wk, hooks, regLog, reqVars>>

\* Worker::call up to the point where it waits for the body
CallBegin(ev, del, sg) ==
    /\ phase = "serving"
    /\ pc = "idle"
    /\ hdrs' = [event |-> ev, delivery |-> del]
    /\ LET check == HeaderCheck(ev, del)
       IN  IF check = "invalid_headers"
           THEN /\ resp' = Some(Response(BAD_REQUEST, "Invalid headers"))
                /\ pc' = "done"
                /\ signature' = None
                /\ resolved' = <<>>
           ELSE IF check = "invalid_request"
           THEN /\ resp' = Some(Response(BAD_REQUEST, "Invalid Response"))
                /\ pc' = "done"
                /\ signature' = None
                /\ resolved' = <<>>
           ELSE /\ signature' = SignatureOf(sg)
                /\ LET found == WorkerHooks(hooks, ev[1].val)
                   IN  IF found # None
                       THEN /\ resolved' = found[1]
                            /\ pc' = "body"
                            /\ resp' = None
                       ELSE /\ resolved' = <<>>
                            /\ pc' = "done"
                            /\ resp' = Some(Response(INTERNAL_SERVER_ERROR, "Server not configured"))
    /\ UNCHANGED <<wk, hooks, regLog, phase, body, parsed, delivery, idx, hookState, calls>>

\* a body conversion by String::from_utf8_lossy: invalid bytes are replaced, not refused
ReadBodyLossy(b) ==
    /\ pc = "body"
    /\ body' = Some(b)
    /\ IF ~b.readOk
       THEN /\ resp' = Some(Response(BAD_REQUEST, "Failed to retrieve request body"))
            /\ pc' = "done"
            /\ UNCHANGED <<parsed, delivery, idx>>
       ELSE LET d == DeliveryNew(hdrs.delivery[1].val, hdrs.event[1].val, b.text, signature)
            IN  /\ parsed' = TRUE
                /\ IF d # None
                   THEN /\ delivery' = d
                        /\ idx' = 1
                        /\ pc' = "dispatch"
                        /\ resp' = None
                   ELSE /\ resp' = Some(Response(BAD_REQUEST, "Failed to parse event"))
                        /\ pc' = "done"
                        /\ UNCHANGED <<delivery, idx>>
    /\ UNCHANGED <<wk, hooks, regLog, phase, hdrs, signature, resolved, hookState, calls>>

\* Worker::call from the body's arrival to the start of the hook loop
ReadBody(b) ==
    /\ pc = "body"
    /\ body' = Some(b)
    /\ IF ~b.readOk
       THEN /\ resp' = Some(Response(BAD_REQUEST, "Failed to retrieve request body"))
            /\ pc' = "done"
            /\ UNCHANGED <<parsed, delivery, idx>>
       ELSE IF ~b.utf8
       THEN /\ resp' = Some(Response(BAD_REQUEST, "Failed to parse request body"))
            /\ pc' = "done"
            /\ UNCHANGED <<parsed, delivery, idx>>
       ELSE LET d == DeliveryNew(hdrs.delivery[1].val, hdrs.event[1].val, b.text, signature)
            IN  /\ parsed' = TRUE
                /\ IF d # None
                   THEN /\ delivery' = d
                        /\ idx' = 1
                        /\ pc' = "dispatch"
                        /\ resp' = None
                   ELSE /\ resp' = Some(Response(BAD_REQUEST, "Failed to parse event"))
                        /\ pc' = "done"
                        /\ UNCHANGED <<delivery, idx>>
    /\ UNCHANGED <<wk, hooks, regLog, phase, hdrs, signature, resolved, hookState, calls>>

\* hook.handle(&delivery) is entered for the hook at idx
HookEnter ==
    /\ pc = "dispatch"
    /\ hookState = "none"
    /\ idx <= Len(resolved)
    /\ LET r == HookHandle(resolved[idx], delivery[1])
       IN  /\ calls' = calls \o r.inv
           /\ hookState' = r.st
    /\ UNCHANGED <<wk, hooks, regLog, phase, pc, hdrs, signature, resolved, body, parsed,
                   delivery, idx, resp>>

\* a loop that skips the hook after the one that returned
HookReturnSkipsNext ==
    /\ pc = "dispatch"
    /\ hookState \in {"user", "ret"}
    /\ hookState' = "none"
    /\ idx' = IF idx < Len(resolved) THEN idx + 2 ELSE idx + 1
    /\ UNCHANGED <<wk, hooks, regLog, phase, pc, hdrs, signature, resolved, body, parsed,
                   delivery, calls, resp>>

\* the hook returns; the loop moves on
HookReturn ==
    /\ pc = "dispatch"
    /\ hookState \in {"user", "ret"}
    /\ hookState' = "none"
    /\ idx' = idx + 1
    /\ UNCHANGED <<wk, hooks, regLog, phase, pc, hdrs, signature, resolved, body, parsed,
                   delivery, calls, resp>>

\* a loop that catches the panic of a hook and goes on with the next one
HookPanicCaught ==
    /\ pc = "dispatch"
    /\ hookState \in {"user", "panic"}
    /\ hookState' = "none"
    /\ idx' = idx + 1
    /\ UNCHANGED <<wk, hooks, regLog, phase, pc, hdrs, signature, resolved, body, parsed,
                   delivery, calls, resp>>

\* the hook panics (user code, or the slice in authenticate); nothing catches
\* it, so Worker::call unwinds without a response
HookPanic ==
    /\ pc = "dispatch"
    /\ hookState \in {"user", "panic"}
    /\ pc' = "aborted"
    /\ UNCHANGED <<wk, hooks, regLog, phase, hdrs, signature, resolved, body, parsed,
                   delivery, idx, hookState, calls, resp>>

\* a loop that stops after its first hook
RespondAfterFirstHook ==
    /\ pc = "dispatch"
    /\ hookState = "none"
    /\ idx > 1
    /\ resp' = Some(Response(ACCEPTED, "OK"))
    /\ pc' = "done"
    /\ UNCHANGED <<wk, hooks, regLog, phase, hdrs, signature, resolved, body, parsed,
                   delivery, idx, hookState, calls>>

\* the loop is over: Worker::response(StatusCode::ACCEPTED, "OK")
Respond ==
    /\ pc = "dispatch"
    /\ hookState = "none"
    /\ idx > Len(resolved)
    /\ resp' = Some(Response(ACCEPTED, "OK"))
    /\ pc' = "done"
    /\ UNCHANGED <<wk, hooks, regLog, phase, hdrs, signature, resolved, body, parsed,
                   delivery, idx, hookState, calls>>

\* the response has been sent and the request's locals are dropped; the
\* Worker is ready for the next request
RequestEnd ==
    /\ pc = "done"
    /\ pc' = "idle"
    /\ hdrs' = NoHeaders
    /\ signature' = None
    /\ resolved' = <<>>
    /\ body' = None
    /\ parsed' = FALSE
    /\ delivery' = None
    /\ idx' = 0
    /\ hookState' = "none"
    /\ calls' = <<>>
    /\ resp' = None
    /\ UNCHANGED <<wk, hooks, regLog, phase>>

Next ==
    \/ \E k \in RegKinds, cb \in Callbacks : Handle(k, cb)
    \/ \E k \in RegKinds, secret \in HubSecrets, cb \in AuthCallbacks :
          HandleAuthenticated(k, secret, cb)
    \/ NewService
    \/ \E ev \in EventHeaders, del \in DeliveryHeaders, sg \in SignatureHeaders :
          CallBegin(ev, del, sg)
    \/ \E b \in Bodies : ReadBody(b)
    \/ HookEnter
    \/ HookReturn
    \/ HookPanic
    \/ Respond
    \/ RequestEnd

Spec == Init /\ [][Next]_vars

----------------------------------------------------------------------------
(* A second specification for AuthenticateHook: a Hub holding one           *)
(* authenticated hook receives a delivery with an arbitrary signature, and  *)
(* the run starts where Worker::call enters its hook loop.                  *)

Replace(str, i, c) == [str EXCEPT ![i] = c]

AuthAlphabet ==
    {HexDigits[i] : i \in 1..16} \cup {UpperHex[i] : i \in 1..6}
    \cup {"s", "h", "=", "g", "x", TwoByteChar}

\* every signature a sender could compute, each with one character replaced
\* (or kept), plus signatures that are cut short or extended
AuthSignatureTexts ==
    LET good == {Sign(s, p) : s \in AuthSecrets, p \in Payloads}
    IN  UNION {{Replace(sg, i, c) : i \in 1..Len(sg), c \in AuthAlphabet} : sg \in good}
        \cup {SubSeq(sg, 1, n) : sg \in good, n \in 0..(PrefixLen + 1)}
        \cup {sg \o <<"0">> : sg \in good}
        \cup {<<TwoByteChar, TwoByteChar, TwoByteChar>>}

AuthSignatures == {None} \cup {Some(sg) : sg \in AuthSignatureTexts}

InitAuth ==
    \E secret \in AuthSecrets, p \in Payloads, sg \in AuthSignatures :
        LET hook == AuthenticateHookNew(secret, "g1")
        IN  /\ hooks = (Wildcard :> <<hook>>)
            /\ regLog = <<[event |-> Wildcard, hook |-> hook]>>
            /\ phase = "serving"
            /\ pc = "dispatch"
            /\ hdrs = [event |-> Text("foo"), delivery |-> Text("d1")]
            /\ signature = sg
            /\ resolved = <<hook>>
            /\ body = Some([readOk |-> TRUE, utf8 |-> TRUE, text |-> p])
            /\ parsed = TRUE
            /\ delivery = DeliveryNew("d1", "foo", p, sg)
            /\ idx = 1
            /\ hookState = "none"
            /\ calls = <<>>
            /\ resp = None
            /\ wk = [w \in Workers |-> IdleWorker]

NextAuth == HookEnter \/ HookReturn \/ HookPanic \/ Respond

SpecAuth == InitAuth /\ [][NextAuth]_vars

----------------------------------------------------------------------------
(* A third specification for concurrent requests: the Hub is set up, then    *)
(* every request in Workers runs its own Worker::call over the shared map,   *)
(* the steps of the calls interleaving freely.                               *)

\* the registrations the setup phase draws from
ConcRegistrations ==
    {[event |-> "push", hook |-> CallbackHook("h1")],
     [event |-> Wildcard, hook |-> CallbackHook("h2")],
     [event |-> Wildcard, hook |-> AuthenticateHookNew("s1", "g1")]}

\* every setup: some of the registrations, each made once, in any order
ConcRegLogs ==
    {log \in UNION {[1..n -> ConcRegistrations] : n \in 0..Cardinality(ConcRegistrations)} :
        \A i, j \in DOMAIN log : log[i] = log[j] => i = j}

\* the map after the calls of Hub::handle in log, made in order on Hub::new()
RECURSIVE BuildHub(_, _)
BuildHub(log, n) ==
    IF n = 0 THEN <<>>
    ELSE HubHandle(BuildHub(log, n - 1), log[n].event, log[n].hook)

ConcEventHeaders == {None, Text("push"), Text("foo")}
ConcDeliveryHeaders == {Text("d1")}
ConcSignatureHeaders == {None, Text(Sign("s1", PushJson)), Text(<<"s", "h", "a">>)}
ConcBodies ==
    {[readOk |-> TRUE, utf8 |-> TRUE, text |-> PushJson],
     [readOk |-> FALSE, utf8 |-> TRUE, text |-> ""]}

InitConc ==
    \E log \in ConcRegLogs :
        /\ regLog = log
        /\ hooks = BuildHub(log, Len(log))
        /\ phase = "serving"
        /\ pc = "idle"
        /\ hdrs = NoHeaders
        /\ signature = None
        /\ resolved = <<>>
        /\ body = None
        /\ parsed = FALSE
        /\ delivery = None
        /\ idx = 0
        /\ hookState = "none"
        /\ calls = <<>>
        /\ resp = None
        /\ wk = [w \in Workers |-> IdleWorker]

\* a Worker::call that resolves with entry(event).or_insert(vec![]) and so
\* writes the key of its event into the shared map
WCallBeginInserts(w, ev, del, sg) ==
    /\ phase = "serving"
    /\ wk[w].pc = "idle"
    /\ LET check == HeaderCheck(ev, del)
           map == IF check # "ok" \/ ev[1].val \in DOMAIN hooks
                  THEN hooks
                  ELSE hooks @@ (ev[1].val :> <<>>)
           found == WorkerHooks(map, ev[1].val)
           s == [wk[w] EXCEPT !.hdrs = [event |-> ev, delivery |-> del]]
       IN  /\ hooks' = map
           /\ wk' = [wk EXCEPT ![w] =
                IF check = "invalid_headers"
                THEN [s EXCEPT !.resp = Some(Response(BAD_REQUEST, "Invalid headers")),
                               !.pc = "done"]
                ELSE IF check = "invalid_request"
                THEN [s EXCEPT !.resp = Some(Response(BAD_REQUEST, "Invalid Response")),
                               !.pc = "done"]
                ELSE IF found # None
                THEN [s EXCEPT !.signature = SignatureOf(sg),
                               !.resolved = found[1],
                               !.pc = "body"]
                ELSE [s EXCEPT !.signature = SignatureOf(sg),
                               !.resp = Some(Response(INTERNAL_SERVER_ERROR,
                                                      "Server not configured")),
                               !.pc = "done"]]
    /\ UNCHANGED <<regLog, phase, reqVars>>

\* Worker::call of request w up to the point where it waits for the body;
\* self.hooks is a shared reference and is only read
WCallBegin(w, ev, del, sg) ==
    /\ phase = "serving"
    /\ wk[w].pc = "idle"
    /\ LET check == HeaderCheck(ev, del)
           found == WorkerHooks(hooks, ev[1].val)
           s == [wk[w] EXCEPT !.hdrs = [event |-> ev, delivery |-> del]]
       IN  wk' = [wk EXCEPT ![w] =
                IF check = "invalid_headers"
                THEN [s EXCEPT !.resp = Some(Response(BAD_REQUEST, "Invalid headers")),
                               !.pc = "done"]
                ELSE IF check = "invalid_request"
                THEN [s EXCEPT !.resp = Some(Response(BAD_REQUEST, "Invalid Response")),
                               !.pc = "done"]
                ELSE IF found # None
                THEN [s EXCEPT !.signature = SignatureOf(sg),
                               !.resolved = found[1],
                               !.pc = "body"]
                ELSE [s EXCEPT !.signature = SignatureOf(sg),
                               !.resp = Some(Response(INTERNAL_SERVER_ERROR,
                                                      "Server not configured")),
                               !.pc = "done"]]
    /\ UNCHANGED <<hooks, regLog, phase, reqVars>>

\* Worker::call of request w from the body's arrival to the start of the hook loop
WReadBody(w, b) ==
    /\ wk[w].pc = "body"
    /\ LET s == [wk[w] EXCEPT !.body = Some(b)]
           d == DeliveryNew(s.hdrs.delivery[1].val, s.hdrs.event[1].val, b.text, s.signature)
       IN  wk' = [wk EXCEPT ![w] =
                IF ~b.readOk
                THEN [s EXCEPT !.resp = Some(Response(BAD_REQUEST,
                                                      "Failed to retrieve request body")),
                               !.pc = "done"]
                ELSE IF ~b.utf8
                THEN [s EXCEPT !.resp = Some(Response(BAD_REQUEST,
                                                      "Failed to parse request body")),
                               !.pc = "done"]
                ELSE IF d # None
                THEN [s EXCEPT !.delivery = d, !.idx = 1, !.pc = "dispatch"]
                ELSE [s EXCEPT !.resp = Some(Response(BAD_REQUEST, "Failed to parse event")),
                               !.pc = "done"]]
    /\ UNCHANGED <<hooks, regLog, phase, reqVars>>

\* request w enters hook.handle(&delivery) for the hook at its idx
WHookEnter(w) ==
    /\ wk[w].pc = "dispatch"
    /\ wk[w].hookState = "none"
    /\ wk[w].idx <= Len(wk[w].resolved)
    /\ LET r == HookHandle(wk[w].resolved[wk[w].idx], wk[w].delivery[1])
       IN  wk' = [wk EXCEPT ![w].calls = @ \o r.inv, ![w].hookState = r.st]
    /\ UNCHANGED <<hooks, regLog, phase, reqVars>>

\* the hook of request w returns; its loop moves on
WHookReturn(w) ==
    /\ wk[w].pc = "dispatch"
    /\ wk[w].hookState \in {"user", "ret"}
    /\ wk' = [wk EXCEPT ![w].hookState = "none", ![w].idx = @ + 1]
    /\ UNCHANGED <<hooks, regLog, phase, reqVars>>

\* the hook of request w panics; the Worker::call of w unwinds without a response
WHookPanic(w) ==
    /\ wk[w].pc = "dispatch"
    /\ wk[w].hookState \in {"user", "panic"}
    /\ wk' = [wk EXCEPT ![w].pc = "aborted"]
    /\ UNCHANGED <<hooks, regLog, phase, reqVars>>

\* the loop of request w is over: Worker::response(StatusCode::ACCEPTED, "OK")
WRespond(w) ==
    /\ wk[w].pc = "dispatch"
    /\ wk[w].hookState = "none"
    /\ wk[w].idx > Len(wk[w].resolved)
    /\ wk' = [wk EXCEPT ![w].resp = Some(Response(ACCEPTED, "OK")), ![w].pc = "done"]
    /\ UNCHANGED <<hooks, regLog, phase, reqVars>>

NextConc ==
    \/ \E w \in Workers, ev \in ConcEventHeaders, del \in ConcDeliveryHeaders,
          sg \in ConcSignatureHeaders : WCallBegin(w, ev, del, sg)
    \/ \E w \in Workers, b \in ConcBodies : WReadBody(w, b)
    \/ \E w \in Workers : WHookEnter(w)
    \/ \E w \in Workers : WHookReturn(w)
    \/ \E w \in Workers : WHookPanic(w)
    \/ \E w \in Workers : WRespond(w)

SpecConc == InitConc /\ [][NextConc]_vars

----------------------------------------------------------------------------
(* Properties *)

\* the hooks registered under k, in registration order, read from the history
RegisteredUnder(k) ==
    LET sel == SelectSeq(regLog, LAMBDA r : r.event = k)
    IN  [i \in 1..Len(sel) |-> sel[i].hook]

\* event kinds a request can name, one of them never registered
EventKinds == RequestKinds \cup {"ping"}

\* hook.handle of the i-th resolved hook has been entered for this request
Entered(i) == idx > i \/ (idx = i /\ (hookState # "none" \/ pc = "aborted"))

\* number of invocations of callback cb so far in this request
CallCount(cb) == Cardinality({n \in 1..Len(calls) : calls[n].cb = cb})

\* C1: for every event kind k the resolved list is the hooks registered under
\* k in registration order followed by the hooks registered under "*" in
\* registration order, however the registrations were interleaved; this is
\* also the list a request in flight holds.
C1_ResolveOrder ==
    /\ \A k \in EventKinds :
          LET ex == RegisteredUnder(k)
              im == RegisteredUnder(Wildcard)
          IN  (ex # <<>> \/ im # <<>>) => WorkerHooks(hooks, k) = Some(ex \o im)
    /\ pc \in {"body", "dispatch"} =>
          resolved = RegisteredUnder(hdrs.event[1].val) \o RegisteredUnder(Wildcard)

\* a wildcard, then an explicit hook, then a wildcard again: the explicit one resolves first
C1_Witness ==
    /\ pc = "body"
    /\ hdrs.event = Text("push")
    /\ Len(regLog) = 3
    /\ regLog[1].event = Wildcard /\ regLog[2].event = "push" /\ regLog[3].event = Wildcard
    /\ regLog[1].hook # regLog[3].hook
    /\ resolved = <<regLog[2].hook, regLog[1].hook, regLog[3].hook>>

\* C2: resolve(k) is absent exactly when nothing was ever registered under k
\* or under "*"; for a k with no registration of its own and a wildcard
\* present it is exactly the wildcard sequence.
C2_AbsentIffNothingRegistered ==
    \A k \in EventKinds :
        /\ WorkerHooks(hooks, k) = None
              <=> ~\E i \in 1..Len(regLog) : regLog[i].event \in {k, Wildcard}
        /\ (RegisteredUnder(k) = <<>> /\ RegisteredUnder(Wildcard) # <<>>)
              => WorkerHooks(hooks, k) = Some(RegisteredUnder(Wildcard))

\* only wildcard hooks exist and a request for another kind resolved to them
C2_Witness ==
    /\ Len(regLog) = 2
    /\ \A i \in 1..Len(regLog) : regLog[i].event = Wildcard
    /\ pc = "body"
    /\ hdrs.event = Text("foo")
    /\ resolved = <<regLog[1].hook, regLog[2].hook>>
    /\ WorkerHooks(hooks, "ping") = Some(resolved)

\* C3: Hub::len is the number of distinct event kinds registered at least
\* once ("*" counting as one), not the number of hooks.
C3_LenCountsKeys ==
    HubLen(hooks) = Cardinality({regLog[i].event : i \in 1..Len(regLog)})

\* two hooks under "push" and one under "*": size 2
C3_Witness ==
    /\ Len(regLog) = 3
    /\ Cardinality({i \in 1..3 : regLog[i].event = "push"}) = 2
    /\ Cardinality({i \in 1..3 : regLog[i].event = Wildcard}) = 1
    /\ HubLen(hooks) = 2

\* the request in flight lacks the event or the delivery header, or carries one as non-text
HeadersBad ==
    \/ hdrs.event = None \/ hdrs.delivery = None
    \/ ~hdrs.event[1].text \/ ~hdrs.delivery[1].text

\* the event kind named by a request whose headers are valid
EventStr == hdrs.event[1].val

ClientError == 400..499
ServerError == 500..599
Success == 200..299

\* C4: a request without a usable event-kind or delivery-id header ends in a
\* client-error response; no hook is invoked and the body is neither read
\* nor parsed, whatever the registry holds.
C4_BadHeadersRejected ==
    (pc # "idle" /\ HeadersBad) =>
        /\ pc = "done"
        /\ resp # None /\ resp[1].status \in ClientError
        /\ calls = <<>>
        /\ body = None /\ ~parsed /\ delivery = None

\* the delivery id is missing while hooks exist for the event and for "*"
C4_Witness ==
    /\ pc = "done"
    /\ hdrs.event = Text("push") /\ hdrs.delivery = None
    /\ "push" \in DOMAIN hooks /\ Wildcard \in DOMAIN hooks
    /\ resp = Some(Response(BAD_REQUEST, "Invalid Response"))

\* valid headers, and nothing registered for the event kind or for "*"
NoHooksCase ==
    /\ pc # "idle" /\ ~HeadersBad
    /\ RegisteredUnder(EventStr) = <<>> /\ RegisteredUnder(Wildcard) = <<>>

\* C5 as stated: with no explicit and no wildcard hook the request ends in
\* the "no hook configured" response with an accepted, non-server-error
\* status, without reading or parsing the body and without invoking a hook.
C5_Original ==
    NoHooksCase =>
        /\ pc = "done"
        /\ resp # None
        /\ resp[1].status \in Success /\ resp[1].status \notin ServerError
        /\ resp[1].body = "no hook configured"
        /\ body = None /\ ~parsed /\ calls = <<>>

\* C5 amended: with no explicit and no wildcard hook the request ends in the
\* "Server not configured" response with the server-error status 500,
\* without reading or parsing the body and without invoking a hook.
C5_NoHooksServerError ==
    NoHooksCase =>
        /\ pc = "done"
        /\ resp = Some(Response(INTERNAL_SERVER_ERROR, "Server not configured"))
        /\ resp[1].status \in ServerError
        /\ body = None /\ ~parsed /\ calls = <<>>

\* hooks exist, but none for the kind of this request
C5_Witness ==
    /\ pc = "done"
    /\ hdrs.event = Text("foo") /\ hdrs.delivery = Text("d1")
    /\ DOMAIN hooks = {"push"}
    /\ resp # None /\ resp[1].status = INTERNAL_SERVER_ERROR

\* C6: when Delivery::new fails (in particular on malformed JSON for a known
\* kind) the request ends in the client-error "Failed to parse event"
\* response and none of the resolved hooks is invoked; every Delivery a hook
\* receives carries the payload decoded from its own raw text.
C6_ParseFailureRejectsDelivery ==
    /\ (parsed /\ delivery = None) =>
          /\ pc = "done"
          /\ resp = Some(Response(BAD_REQUEST, "Failed to parse event"))
          /\ resp[1].status \in ClientError
          /\ calls = <<>> /\ idx = 0
    /\ (/\ pc \notin {"idle", "body"} /\ ~HeadersBad /\ body # None
        /\ body[1].readOk /\ body[1].utf8
        /\ EventStr \in KnownKinds /\ body[1].text \notin WellFormedJson)
          => (parsed /\ delivery = None)
    /\ \A n \in 1..Len(calls) :
          FromStrEvent(calls[n].d.event,
                       PatchPayloadJson(calls[n].d.event, calls[n].d.unparsed_payload))
             = Some(calls[n].d.payload)

\* malformed JSON for "push" with an explicit and a wildcard hook registered
C6_Witness ==
    /\ pc = "done"
    /\ hdrs.event = Text("push")
    /\ body # None /\ body[1].text = MalformedJson
    /\ "push" \in DOMAIN hooks /\ Wildcard \in DOMAIN hooks
    /\ Len(resolved) >= 2
    /\ parsed /\ delivery = None /\ calls = <<>>

\* valid headers, a kind the payload model does not know, a body read as
\* text, and at least one hook under "*"
UnknownKindCase ==
    /\ pc \notin {"idle", "body"} /\ ~HeadersBad
    /\ EventStr \notin KnownKinds
    /\ RegisteredUnder(Wildcard) # <<>>
    /\ body # None /\ body[1].readOk /\ body[1].utf8

EnteredAuth == {i \in 1..Len(resolved) : resolved[i].auth /\ Entered(i)}

\* C8: an Authenticating Hook handed a Delivery without signature never
\* invokes its inner hook and returns normally, for every secret and payload.
C8_AbsentSignatureSkipsInner ==
    (delivery # None /\ delivery[1].signature = None) =>
        /\ \A i \in EnteredAuth : CallCount(resolved[i].cb) = 0
        /\ \A i \in EnteredAuth : i = idx => hookState \in {"none", "ret"} /\ pc # "aborted"

\* the authenticating hook returned without a call and the request was acknowledged
C8_Witness ==
    /\ pc = "done"
    /\ delivery # None /\ delivery[1].signature = None
    /\ EnteredAuth = {1}
    /\ calls = <<>>
    /\ resp = Some(Response(ACCEPTED, "OK"))

\* C9: with the signature "sha1=" followed by the hex of HMAC-SHA1(secret,
\* raw payload), verification succeeds and the inner hook is invoked exactly
\* once, with the Delivery the hook was handed (SpecAuth makes one call of
\* AuthenticateHook::handle per run).
C9_ValidSignatureInvokesInnerOnce ==
    \A i \in EnteredAuth :
        delivery[1].signature = Some(Sign(resolved[i].secret, delivery[1].unparsed_payload))
        => /\ Authenticate(resolved[i].secret, delivery[1].unparsed_payload,
                           delivery[1].signature[1]) = "true"
           /\ CallCount(resolved[i].cb) = 1
           /\ \A n \in 1..Len(calls) : calls[n] = [cb |-> resolved[i].cb, d |-> delivery[1]]

\* a correctly signed delivery went through the inner hook
C9_Witness ==
    /\ pc = "done"
    /\ EnteredAuth = {1}
    /\ resolved[1].secret = "s2"
    /\ delivery[1].signature = Some(Sign("s2", delivery[1].unparsed_payload))
    /\ calls = <<[cb |-> "g1", d |-> delivery[1]]>>

\* str2 is str1 with exactly one character replaced by a different one
SingleCharChange(str1, str2) ==
    /\ Len(str1) = Len(str2)
    /\ Cardinality({i \in 1..Len(str1) : str1[i] # str2[i]}) = 1

\* C10 as stated: a signature that differs in exactly one character from the
\* authentic one fails verification, so the inner hook is not invoked.
C10_Original ==
    \A i \in EnteredAuth :
        (/\ delivery[1].signature # None
         /\ SingleCharChange(Sign(resolved[i].secret, delivery[1].unparsed_payload),
                             delivery[1].signature[1]))
        => /\ Authenticate(resolved[i].secret, delivery[1].unparsed_payload,
                           delivery[1].signature[1]) # "true"
           /\ CallCount(resolved[i].cb) = 0

\* the i-th resolved hook authenticates and the signature given does not verify
VerificationFails(i) ==
    /\ resolved[i].auth
    /\ delivery[1].signature # None
    /\ Authenticate(resolved[i].secret, delivery[1].unparsed_payload,
                    delivery[1].signature[1]) # "true"

\* C11 as stated: a signature that fails verification never changes the
\* outcome: the failing Authenticating Hook returns without invoking its
\* inner hook, the other hooks are still invoked, and the request is
\* answered with the success response.
C11_Original ==
    \A i \in EnteredAuth :
        VerificationFails(i) =>
            /\ i = idx => (hookState # "panic" /\ pc # "aborted")
            /\ pc = "done" =>
                  /\ resp = Some(Response(ACCEPTED, "OK"))
                  /\ \A j \in 1..Len(resolved) :
                        /\ Entered(j)
                        /\ ~resolved[j].auth => CallCount(resolved[j].cb) >= 1

RECURSIVE ExpectedCalls(_, _, _)
\* the callback invocations made by handing d to the first k hooks of list, in order
ExpectedCalls(list, d, k) ==
    IF k = 0 THEN <<>> ELSE ExpectedCalls(list, d, k - 1) \o HookHandle(list[k], d).inv

\* number of resolved hooks whose handle has been entered
EnteredCount == IF hookState # "none" \/ pc = "aborted" THEN idx ELSE idx - 1

\* C12 (state part): the invocations made so far are those of the first
\* hooks of the resolved list, in resolved order, every one with the
\* request's Delivery; a response exists only after the last hook returned.
C12_Inv ==
    (pc \in {"dispatch", "done", "aborted"} /\ delivery # None) =>
        /\ EnteredCount \in 0..Len(resolved)
        /\ calls = ExpectedCalls(resolved, delivery[1], EnteredCount)
        /\ \A n \in 1..Len(calls) : calls[n].d = delivery[1]
        /\ resp # None => (EnteredCount = Len(resolved) /\ hookState = "none")

\* C12 (step part): a hook is entered only while no hook is running, the
\* loop advances by one hook and only when the running hook returns, and
\* the response is produced by a step taken with every hook returned.
C12_Step ==
    /\ (pc = "dispatch" /\ calls' # calls) => (hookState = "none" /\ idx' = idx)
    /\ (pc = "dispatch" /\ pc' = "dispatch" /\ idx' # idx) =>
          (hookState \in {"user", "ret"} /\ hookState' = "none" /\ idx' = idx + 1)
    /\ (pc = "dispatch" /\ resp' # None) =>
          (hookState = "none" /\ idx = Len(resolved) + 1 /\ calls' = calls)
    /\ (pc = "dispatch" /\ pc' \in {"dispatch", "done", "aborted"}) =>
          (delivery' = delivery /\ resolved' = resolved)

\* C12: the resolved hooks are invoked one at a time in exactly the resolved
\* order, hook i+1 only after hook i returned, each with the same Delivery,
\* and the response comes only after the last hook has returned.
C12_SequentialDispatch == []C12_Inv /\ [][C12_Step]_vars

\* three different hooks resolved for "push", all invoked in order, then the response
C12_Witness ==
    /\ pc = "done"
    /\ hdrs.event = Text("push")
    /\ delivery # None
    /\ Len(resolved) = 3
    /\ resolved[1].cb = "h2" /\ resolved[2].cb = "g1" /\ resolved[3].cb = "h1"
    /\ calls = <<[cb |-> "h2", d |-> delivery[1]], [cb |-> "g1", d |-> delivery[1]],
                 [cb |-> "h1", d |-> delivery[1]]>>
    /\ resp = Some(Response(ACCEPTED, "OK"))

\* the body arrived and its bytes are valid UTF-8
BodyIsText == body # None /\ body[1].readOk /\ body[1].utf8

\* C13 as stated: every response is a row of the canonical mapping, each
\* condition gives its own row, and no response has a server-error status.
C13_Original ==
    resp # None =>
        /\ resp[1].status \notin ServerError
        /\ IF HeadersBad
           THEN resp[1].status \in ClientError /\ resp[1].body = "invalid request headers"
           ELSE IF RegisteredUnder(EventStr) = <<>> /\ RegisteredUnder(Wildcard) = <<>>
           THEN resp[1].status \in Success /\ resp[1].body = "no hook configured"
           ELSE IF ~BodyIsText
           THEN resp[1].status \in ClientError /\ resp[1].body = "failed to read body"
           ELSE IF delivery = None
           THEN resp[1].status \in ClientError /\ resp[1].body = "failed to parse event"
           ELSE resp[1].status \in Success /\ resp[1].body = "OK"

\* the response the code gives for the condition the request is in
ResponseRow ==
    IF hdrs.event = None \/ hdrs.delivery = None
    THEN Response(BAD_REQUEST, "Invalid Response")
    ELSE IF ~hdrs.event[1].text \/ ~hdrs.delivery[1].text
    THEN Response(BAD_REQUEST, "Invalid headers")
    ELSE IF RegisteredUnder(EventStr) = <<>> /\ RegisteredUnder(Wildcard) = <<>>
    THEN Response(INTERNAL_SERVER_ERROR, "Server not configured")
    ELSE IF body # None /\ ~body[1].readOk
    THEN Response(BAD_REQUEST, "Failed to retrieve request body")
    ELSE IF body # None /\ ~body[1].utf8
    THEN Response(BAD_REQUEST, "Failed to parse request body")
    ELSE IF delivery = None
    THEN Response(BAD_REQUEST, "Failed to parse event")
    ELSE Response(ACCEPTED, "OK")

\* C13 amended: every response is one of (400, "Invalid Response") for a
\* missing header, (400, "Invalid headers") for a non-text header, (500,
\* "Server not configured") for no interested hooks, (400, "Failed to
\* retrieve request body"), (400, "Failed to parse request body") for a body
\* that is not UTF-8, (400, "Failed to parse event") and (202, "OK"); each
\* condition always gives its own row, and the only server-error status is
\* the 500 of "no interested hooks".
C13_ResponseRows ==
    /\ pc = "done" <=> resp # None
    /\ resp # None =>
          /\ resp[1] = ResponseRow
          /\ resp[1].status \in ClientError \cup ServerError \cup Success
          /\ resp[1].status \in ServerError <=>
                (~HeadersBad /\ RegisteredUnder(EventStr) = <<>>
                             /\ RegisteredUnder(Wildcard) = <<>>)
          /\ resp[1].status \in Success <=> (delivery # None /\ idx = Len(resolved) + 1)

\* the body could not be retrieved although hooks were resolved
C13_Witness ==
    /\ pc = "done"
    /\ hdrs.event = Text("push")
    /\ Len(resolved) = 2
    /\ body # None /\ ~body[1].readOk
    /\ resp = Some(Response(BAD_REQUEST, "Failed to retrieve request body"))

\* valid headers, an interested hook, and a body whose bytes are not valid UTF-8
InvalidUtf8Case ==
    /\ pc \notin {"idle", "body"} /\ ~HeadersBad
    /\ body # None /\ body[1].readOk /\ ~body[1].utf8

\* C14 as stated: a body that is not valid UTF-8 is not rejected for that
\* reason; it is converted by lossy replacement and the request goes on to
\* payload parsing.
C14_Original ==
    InvalidUtf8Case =>
        /\ parsed
        /\ resp # Some(Response(BAD_REQUEST, "Failed to parse request body"))
        /\ delivery # None => delivery[1].unparsed_payload = body[1].text

\* C14 amended: with valid headers and at least one interested hook, a body
\* that is not valid UTF-8 is rejected for that reason: the request ends in
\* the client-error response "Failed to parse request body", the payload is
\* not parsed and no hook is invoked.
C14_InvalidUtf8Rejected ==
    InvalidUtf8Case =>
        /\ pc = "done"
        /\ resp = Some(Response(BAD_REQUEST, "Failed to parse request body"))
        /\ resp[1].status \in ClientError
        /\ ~parsed /\ delivery = None /\ calls = <<>>

\* an unknown kind with a wildcard hook: any text would parse, the bytes are refused
C14_Witness ==
    /\ pc = "done"
    /\ hdrs.event = Text("foo")
    /\ Len(resolved) >= 1
    /\ body # None /\ body[1].readOk /\ ~body[1].utf8
    /\ resp = Some(Response(BAD_REQUEST, "Failed to parse request body"))

\* C15 (state part): after a failure escaped from the hook at idx, no
\* response exists, and the invocations made are exactly those of the hooks
\* up to and including that one: every earlier hook was invoked, no later one.
C15_Inv ==
    pc = "aborted" =>
        /\ idx \in 1..Len(resolved)
        /\ hookState \in {"user", "panic"}
        /\ resp = None
        /\ calls = ExpectedCalls(resolved, delivery[1], idx)
        /\ \A i \in 1..Len(resolved) : Entered(i) <=> i <= idx

\* C15 (step part): a panic raised in a hook is not caught (the next step
\* can only be the unwinding of Worker::call) and nothing runs afterwards.
C15_Step ==
    /\ hookState = "panic" =>
          (pc' = "aborted" /\ calls' = calls /\ idx' = idx /\ resp' = None)
    /\ (hookState = "user" /\ hookState' = "user") => pc' = "aborted"
    /\ pc = "aborted" => UNCHANGED vars

\* C15: a failure raised by a hook is not caught by Worker::call; the hooks
\* before it have been invoked and no hook after it is invoked.
C15_HookFailurePropagates == []C15_Inv /\ [][C15_Step]_vars

\* the second of three callbacks failed: two invocations, no third, no response
C15_Witness ==
    /\ pc = "aborted"
    /\ Len(resolved) = 3 /\ idx = 2
    /\ \A i \in 1..3 : ~resolved[i].auth
    /\ hookState = "user"
    /\ Len(calls) = 2 /\ calls[1].cb = resolved[1].cb /\ calls[2].cb = resolved[2].cb
    /\ resp = None

\* the signature of the request verifies for the i-th resolved hook, over the body as received
VerifiesOverBody(i) ==
    /\ signature # None
    /\ Authenticate(resolved[i].secret, body[1].text, signature[1]) = "true"

\* C16: the Delivery handed to the hooks carries the body text as received as
\* its raw payload, and an Authenticating Hook runs its inner hook exactly
\* when the signature verifies for (secret, signature, body as received),
\* whatever the event kind and the patched text are.
C16_RawPayloadAuthenticated ==
    (pc \in {"dispatch", "done", "aborted"} /\ delivery # None) =>
        /\ delivery[1].unparsed_payload = body[1].text
        /\ delivery[1].signature = signature
        /\ \A n \in 1..Len(calls) : calls[n].d.unparsed_payload = body[1].text
        /\ \A cb \in AuthCallbacks :
              CallCount(cb) =
                  Cardinality({i \in EnteredAuth : resolved[i].cb = cb /\ VerifiesOverBody(i)})

\* a "push" delivery, decoded from the patched text, authenticated over the raw text
C16_Witness ==
    /\ pc = "done"
    /\ hdrs.event = Text("push")
    /\ body # None /\ body[1].text = PushJson
    /\ delivery # None /\ delivery[1].payload.variant = "Push"
    /\ signature = Some(Sign("s1", PushJson))
    /\ EnteredAuth = {1}
    /\ calls = <<[cb |-> "g1", d |-> delivery[1]]>>

\* sig begins with the literal prefix "sha1="
HasSha1Prefix(sig) ==
    Len(sig) >= PrefixLen /\ SubSeq(sig, 1, PrefixLen) = <<"s", "h", "a", "1", "=">>

\* sig lacks the prefix, or what follows its first five characters is not valid hex
MalformedSignature(sig) ==
    \/ ~HasSha1Prefix(sig)
    \/ ~FromHex(SubSeq(sig, PrefixLen + 1, Len(sig))).ok

\* C17 as stated: for every present signature that does not begin with
\* "sha1=" (shorter than five characters, empty, or another prefix before a
\* correct digest) or whose remainder is not valid hex, handle returns
\* normally and the inner hook is not invoked.
C17_Original ==
    \A i \in EnteredAuth :
        (delivery[1].signature # None /\ MalformedSignature(delivery[1].signature[1])) =>
            /\ CallCount(resolved[i].cb) = 0
            /\ i = idx => (hookState # "panic" /\ pc # "aborted")

\* number of registrations of the plain callback cb that a delivery of kind k concerns
RegistrationCount(cb, k) ==
    Cardinality({i \in 1..Len(regLog) :
                    regLog[i].hook = CallbackHook(cb) /\ regLog[i].event \in {k, Wildcard}})

\* C18 as stated: for every event kind, "*" included, a successfully
\* dispatched delivery invokes each registration exactly once: a callback
\* runs as many times as it was registered under the kind or under "*", a
\* wildcard registration never counting twice.
C18_Original ==
    (pc = "done" /\ resp = Some(Response(ACCEPTED, "OK"))) =>
        \A cb \in Callbacks : CallCount(cb) = RegistrationCount(cb, EventStr)

\* C19: every key of the registry maps to a non-empty hook sequence, so a
\* resolution is never present and empty, and a request that got past the
\* resolution has at least one hook to invoke.
C19_NoEmptyHookList ==
    /\ \A k \in DOMAIN hooks : Len(hooks[k]) >= 1
    /\ \A k \in EventKinds : WorkerHooks(hooks, k) # Some(<<>>)
    /\ pc \in {"body", "dispatch"} => Len(resolved) >= 1
    /\ (pc = "done" /\ resp = Some(Response(ACCEPTED, "OK"))) => Len(resolved) >= 1

\* a request resolved to the single hook of a registry with a single key
C19_Witness ==
    /\ pc = "dispatch"
    /\ DOMAIN hooks = {"push"} /\ Len(hooks["push"]) = 1
    /\ hdrs.event = Text("push")
    /\ resolved = hooks["push"]

\* the response Worker::call gives a request served alone over map; None
\* while the body has not been awaited
SoloResponse(map, h, sig, b) ==
    LET check == HeaderCheck(h.event, h.delivery)
    IN  IF check = "invalid_headers" THEN Some(Response(BAD_REQUEST, "Invalid headers"))
        ELSE IF check = "invalid_request" THEN Some(Response(BAD_REQUEST, "Invalid Response"))
        ELSE IF WorkerHooks(map, h.event[1].val) = None
        THEN Some(Response(INTERNAL_SERVER_ERROR, "Server not configured"))
        ELSE IF b = None THEN None
        ELSE IF ~b[1].readOk
        THEN Some(Response(BAD_REQUEST, "Failed to retrieve request body"))
        ELSE IF ~b[1].utf8 THEN Some(Response(BAD_REQUEST, "Failed to parse request body"))
        ELSE IF DeliveryNew(h.delivery[1].val, h.event[1].val, b[1].text, sig) = None
        THEN Some(Response(BAD_REQUEST, "Failed to parse event"))
        ELSE Some(Response(ACCEPTED, "OK"))

\* the hooks a request served alone over map resolves
SoloResolved(map, h) ==
    IF HeaderCheck(h.event, h.delivery) = "ok" /\ WorkerHooks(map, h.event[1].val) # None
    THEN WorkerHooks(map, h.event[1].val)[1]
    ELSE <<>>

\* request s is where a request with its headers, signature and body is when
\* it is served alone over map: same resolution, same invocations in the
\* same order up to the hook it has reached, same response, and a hook that
\* ends it is one that panics for this delivery whoever else is served
AsIfAlone(s, map) ==
    LET list == SoloResolved(map, s.hdrs)
        entered == IF s.hookState # "none" \/ s.pc = "aborted" THEN s.idx ELSE s.idx - 1
    IN  s.pc # "idle" =>
            /\ s.resolved = list
            /\ s.pc = "done" => s.resp = SoloResponse(map, s.hdrs, s.signature, s.body)
            /\ s.pc # "done" => s.resp = None
            /\ s.pc = "body" => SoloResponse(map, s.hdrs, s.signature, s.body) = None
            /\ s.pc \in {"dispatch", "aborted"} =>
                  /\ SoloResponse(map, s.hdrs, s.signature, s.body)
                        = Some(Response(ACCEPTED, "OK"))
                  /\ s.delivery = DeliveryNew(s.hdrs.delivery[1].val, s.hdrs.event[1].val,
                                              s.body[1].text, s.signature)
                  /\ s.calls = ExpectedCalls(list, s.delivery[1], entered)
            /\ s.pc = "aborted" =>
                  HookHandle(list[s.idx], s.delivery[1]).st \in {"user", "panic"}
            /\ (s.pc = "done" /\ s.resp = Some(Response(ACCEPTED, "OK"))) =>
                  /\ s.calls = ExpectedCalls(list, s.delivery[1], Len(list))
                  /\ \A i \in 1..Len(list) : HookHandle(list[i], s.delivery[1]).st # "panic"
            /\ (s.pc = "done" /\ s.resp # Some(Response(ACCEPTED, "OK"))) => s.calls = <<>>

\* C20: handling a request never modifies the registry (the map stays the
\* one the setup built), and under every interleaving of the concurrently
\* served requests each of them gets the response and the ordered hook
\* invocations it gets when it is served alone over that registry.
C20_ConcurrentRequestsIsolated ==
    /\ hooks = BuildHub(regLog, Len(regLog))
    /\ \A w \in Workers : AsIfAlone(wk[w], BuildHub(regLog, Len(regLog)))

\* both requests are inside the user callback of the same hook at once, one
\* of them after an earlier invocation
C20_Witness ==
    /\ wk["w1"].hookState = "user" /\ wk["w2"].hookState = "user"
    /\ wk["w1"].resolved[wk["w1"].idx] = wk["w2"].resolved[wk["w2"].idx]
    /\ Len(wk["w1"].calls) = 2
    /\ Len(wk["w2"].calls) = 1

====
